---- MODULE Spec2Model ----
(***************************************************************************)
(* Model of the definition-list plugin (src/main.ts, lines 115-336):       *)
(*   - buildDecorations: the annotation pass of the live-preview editor    *)
(*     extension, one loop iteration per step;                             *)
(*   - definitionListPostProcessor: the restructurer of rendered           *)
(*     paragraphs, one loop iteration per step.                            *)
(* A text is a sequence of one-character strings; rendered markup is a     *)
(* sequence of the same characters plus atomic tag tokens ("<br>", "<dl>", *)
(* ...), so that String methods and regular expressions are operators on   *)
(* sequences.                                                              *)
(***************************************************************************)
EXTENDS Integers, Sequences, FiniteSets, TLC

VARIABLES
    doc,                    \* view.state.doc: the lines of the document
    selection,              \* view.state.selection.ranges
    apc,                    \* position of buildDecorations: idle, loop, done
    i,                      \* loop variable of buildDecorations (1-based)
    inCodeBlock,
    lastLineWasTerm,
    lastLineWasDefinition,
    builder,                \* RangeSetBuilder: the directives added so far
    decorations,            \* this.decorations
    live,                   \* the editor element carries the class is-live-preview
    upd,                    \* the flags of the last ViewUpdate handled
    updates,                \* number of ViewUpdates handled
    passes,                 \* history: input and result of every finished pass
    paragraph,              \* paragraph.innerHTML
    prevHTML,               \* paragraph.innerHTML as read by the last pass
    rpc,                    \* position of the post-processor: idle, loop, done
    runs,                   \* number of post-processor passes started
    lines,                  \* paragraph.innerHTML.split('<br>')
    ri,                     \* loop variable of the post-processor (0-based)
    dl,                     \* index in newContent of the open <dl>, 0 = null
    currentTerm,            \* [set |-> BOOLEAN, text |-> line]; set = FALSE is null
    newContent,
    invalidateCurrentPair,
    placed                  \* per line index of the pass: "dt", "dd" or "none"

hvars == <<live, upd, updates, passes>>
avars == <<doc, selection, apc, i, inCodeBlock, lastLineWasTerm,
           lastLineWasDefinition, builder, decorations, live, upd, updates, passes>>
rvars == <<paragraph, prevHTML, rpc, runs, lines, ri, dl, currentTerm,
           newContent, invalidateCurrentPair, placed>>
vars == <<doc, selection, apc, i, inCodeBlock, lastLineWasTerm,
          lastLineWasDefinition, builder, decorations, live, upd, updates, passes,
          paragraph, prevHTML, rpc, runs, lines, ri, dl, currentTerm,
          newContent, invalidateCurrentPair, placed>>

----------------------------------------------------------------------------
(* Bounds *)

MaxLines == 3
MaxPos == 4
MaxSelLen == 1
MaxParaLines == 5
MaxRuns == 2
MaxUpdates == 2
MaxRoleLines == 4

----------------------------------------------------------------------------
(* Strings *)

\* The backtick character, written as a token.
Backtick == "backtick"

IsSpace(c) == c = " "

IsDigit(c) == c \in {"1", "2"}

IsMarker(c) == c \in {":", "~"}

\* Number of leading characters of s that satisfy \s.
LeadingSpaces(s) ==
    IF \A k \in 1..Len(s) : IsSpace(s[k]) THEN Len(s)
    ELSE CHOOSE k \in 0..Len(s) - 1 :
            /\ \A j \in 1..k : IsSpace(s[j])
            /\ ~IsSpace(s[k + 1])

TrailingSpaces(s) ==
    IF \A k \in 1..Len(s) : IsSpace(s[k]) THEN Len(s)
    ELSE CHOOSE k \in 0..Len(s) - 1 :
            /\ \A j \in 1..k : IsSpace(s[Len(s) + 1 - j])
            /\ ~IsSpace(s[Len(s) - k])

\* String.prototype.trim
Trim(s) ==
    IF LeadingSpaces(s) = Len(s) THEN <<>>
    ELSE SubSeq(s, LeadingSpaces(s) + 1, Len(s) - TrailingSpaces(s))

\* String.prototype.startsWith
StartsWith(s, p) == Len(s) >= Len(p) /\ SubSeq(s, 1, Len(p)) = p

\* Number of leading characters of s equal to c.
LeadingRun(s, c) ==
    IF \A k \in 1..Len(s) : s[k] = c THEN Len(s)
    ELSE CHOOSE k \in 0..Len(s) - 1 :
            /\ \A j \in 1..k : s[j] = c
            /\ s[k + 1] # c

LeadingDigits(s) ==
    IF \A k \in 1..Len(s) : IsDigit(s[k]) THEN Len(s)
    ELSE CHOOSE k \in 0..Len(s) - 1 :
            /\ \A j \in 1..k : IsDigit(s[j])
            /\ ~IsDigit(s[k + 1])

----------------------------------------------------------------------------
(* Regular expressions of buildDecorations *)

\* the marker pattern of the line itself with at most two leading blanks
definitionMatch_IndentAtMostTwo(lineText) ==
    LET k == LeadingSpaces(lineText) IN
    /\ k <= 2
    /\ Len(lineText) >= k + 2
    /\ IsMarker(lineText[k + 1])
    /\ IsSpace(lineText[k + 2])

\* /^(\s*)([:~])\s/
definitionMatch(lineText) ==
    LET k == LeadingSpaces(lineText) IN
    /\ Len(lineText) >= k + 2
    /\ IsMarker(lineText[k + 1])
    /\ IsSpace(lineText[k + 2])

\* group 1 of definitionMatch
indentOf(lineText) == LeadingSpaces(lineText)

\* nextLine.trim().match(/^(\s{0,2})([:~])\s/)
isNextLineDefinition(nextLine) ==
    LET t == Trim(nextLine)
        k == LeadingSpaces(t) IN
    /\ k <= 2
    /\ Len(t) >= k + 2
    /\ IsMarker(t[k + 1])
    /\ IsSpace(t[k + 2])

\* /^#+\s/
ReHeading(content) ==
    LET h == LeadingRun(content, "#") IN
    h >= 1 /\ Len(content) >= h + 1 /\ IsSpace(content[h + 1])

\* /^\s*(-|\d+\.)\s/
ReListItem(content) ==
    LET k == LeadingSpaces(content)
        r == SubSeq(content, k + 1, Len(content))
        d == LeadingDigits(r) IN
    \/ Len(r) >= 2 /\ r[1] = "-" /\ IsSpace(r[2])
    \/ d >= 1 /\ Len(r) >= d + 2 /\ r[d + 1] = "." /\ IsSpace(r[d + 2])

\* /^(-{3,}|\*{3,}|_{3,})/
ReRule(content) ==
    \E c \in {"-", "*", "_"} : LeadingRun(content, c) >= 3

isNotTerm(content) ==
    \/ ReHeading(content)
    \/ ReListItem(content)
    \/ StartsWith(content, <<"!", "[">>)
    \/ ReRule(content)
    \/ StartsWith(content, <<"[", "^">>)
    \/ StartsWith(content, <<"|">>)
    \/ StartsWith(content, <<"$", "$">>)
    \/ StartsWith(content, <<"^">>)

----------------------------------------------------------------------------
(* The host's text buffer *)

RECURSIVE lineFrom(_, _)
\* doc.line(n).from: lines are joined by one line break
lineFrom(d, n) == IF n <= 1 THEN 0 ELSE lineFrom(d, n - 1) + Len(d[n - 1]) + 1

lineTo(d, n) == lineFrom(d, n) + Len(d[n])

\* the overlap test with both ends exclusive
isCursorTouching_Strict(sel, from, to) ==
    \E range \in sel : range.from < to /\ range.to > from

\* selection.ranges.some(range => range.from <= to && range.to >= from)
isCursorTouching(sel, from, to) ==
    \E range \in sel : range.from <= to /\ range.to >= from

----------------------------------------------------------------------------
(* Inputs of the annotation pass *)

\* Line texts of the documents explored.
DocLines ==
    { <<"a">>,
      <<":", " ", "b">>,
      <<"~", " ", "b">>,
      <<" ", ":", " ", "b">>,
      <<" ", " ", " ", ":", " ", "b">>,
      <<":", " ">>,
      <<>>,
      <<Backtick, Backtick, Backtick>>,
      <<"#", " ", "h">> }

\* A document has at least one line.
Docs == UNION { [1..n -> DocLines] : n \in 1..MaxLines }

Ranges ==
    { [from |-> f, to |-> t] :
        f \in 0..MaxPos, t \in 0..MaxPos } \ 
    { r \in [from : 0..MaxPos, to : 0..MaxPos] :
        r.to < r.from \/ r.to > r.from + MaxSelLen }

\* A selection holds at least one range.
Selections == { {r} : r \in Ranges }

\* doc.length
docLength(d) == lineTo(d, Len(d))

\* the selections that lie inside document d
SelectionsOf(d) == { sel \in Selections : \A r \in sel : r.to <= docLength(d) }

----------------------------------------------------------------------------
(* buildDecorations *)

lineDecoration(from, cls) ==
    [from |-> from, to |-> from, type |-> "line", cls |-> cls]

markDecoration(from, to, cls) ==
    [from |-> from, to |-> to, type |-> "mark", cls |-> cls]

lineText == doc[i]

trimmedLineText == Trim(doc[i])

\* the look-ahead past the last line yielding a marker line
nextLine_PastEnd == IF i < Len(doc) THEN doc[i + 1] ELSE <<":", " ", "b">>

\* const nextLine = i < doc.lines ? doc.line(i + 1).text : ''
nextLine == IF i < Len(doc) THEN doc[i + 1] ELSE <<>>

isFence(text) == StartsWith(Trim(text), <<Backtick, Backtick, Backtick>>)

\* The marker mark starting at the marker, after the indentation.
definitionDecorations_MarkerOnly(d, n, sel) ==
    LET indent == indentOf(d[n])
        isIndented == indent > 0
        markerStartPos == lineFrom(d, n) + indent
        markerEndPos == markerStartPos + 1 + 1
    IN  << lineDecoration(lineFrom(d, n),
              IF isIndented THEN "definition-list-dd-indented"
                            ELSE "definition-list-dd-reg"),
           markDecoration(markerStartPos, markerEndPos,
              IF isCursorTouching(sel, markerStartPos, markerEndPos)
                  THEN "definition-list-visible-marker"
                  ELSE "definition-list-hidden-marker") >>

\* The row class of a definition line added twice.
definitionDecorations_RowTwice(d, n, sel) ==
    LET indent == indentOf(d[n])
        indentStartPos == lineFrom(d, n)
        markerEndPos == indentStartPos + indent + 1 + 1
        row == lineDecoration(lineFrom(d, n),
                  IF indent > 0 THEN "definition-list-dd-indented"
                                ELSE "definition-list-dd-reg")
    IN  << row, row,
           markDecoration(indentStartPos, markerEndPos,
              IF isCursorTouching(sel, indentStartPos, markerEndPos)
                  THEN "definition-list-visible-marker"
                  ELSE "definition-list-hidden-marker") >>

\* The marker mark reaching one position past the end of the line.
definitionDecorations_PastLine(d, n, sel) ==
    LET indent == indentOf(d[n])
        indentStartPos == lineFrom(d, n)
        markerEndPos == lineTo(d, n) + 1
    IN  << lineDecoration(lineFrom(d, n),
              IF indent > 0 THEN "definition-list-dd-indented"
                            ELSE "definition-list-dd-reg"),
           markDecoration(indentStartPos, markerEndPos,
              IF isCursorTouching(sel, indentStartPos, markerEndPos)
                  THEN "definition-list-visible-marker"
                  ELSE "definition-list-hidden-marker") >>

\* The directives of a definition line: the row class, then the marker mark.
definitionDecorations(d, n, sel) ==
    LET indent == indentOf(d[n])
        isIndented == indent > 0
        indentStartPos == lineFrom(d, n)
        markerEndPos == indentStartPos + indent + 1 + 1
    IN  << lineDecoration(lineFrom(d, n),
              IF isIndented THEN "definition-list-dd-indented"
                            ELSE "definition-list-dd-reg"),
           markDecoration(indentStartPos, markerEndPos,
              IF isCursorTouching(sel, indentStartPos, markerEndPos)
                  THEN "definition-list-visible-marker"
                  ELSE "definition-list-hidden-marker") >>

\* what a pass was given and what it returned
finished(result) ==
    [doc |-> doc, selection |-> selection, live |-> live, decorations |-> result]

\* isLivePreview reporting live-preview whatever the class list holds
isLivePreview_Always(lv) == TRUE

\* editorEl?.classList.contains('is-live-preview') ?? false
isLivePreview(lv) == lv

\* constructor: if (!isLivePreview(view)) return Decoration.none
BuildNone ==
    /\ apc = "idle"
    /\ ~isLivePreview(live)
    /\ decorations' = <<>>
    /\ passes' = Append(passes, finished(<<>>))
    /\ apc' = "done"
    /\ UNCHANGED <<doc, selection, i, inCodeBlock, lastLineWasTerm,
                   lastLineWasDefinition, builder>>
    /\ UNCHANGED <<live, upd, updates>>
    /\ UNCHANGED rvars

\* the entry of the pass keeping the flags of the pass before
BuildStart_KeepsFlags ==
    /\ apc = "idle"
    /\ isLivePreview(live)
    /\ apc' = "loop"
    /\ i' = 1
    /\ builder' = <<>>
    /\ UNCHANGED <<doc, selection, decorations, inCodeBlock, lastLineWasTerm,
                   lastLineWasDefinition>>
    /\ UNCHANGED hvars
    /\ UNCHANGED rvars

\* constructor: this.decorations = this.buildDecorations(view), entry of the pass
BuildStart ==
    /\ apc = "idle"
    /\ isLivePreview(live)
    /\ apc' = "loop"
    /\ i' = 1
    /\ inCodeBlock' = FALSE
    /\ lastLineWasTerm' = FALSE
    /\ lastLineWasDefinition' = FALSE
    /\ builder' = <<>>
    /\ UNCHANGED <<doc, selection, decorations>>
    /\ UNCHANGED hvars
    /\ UNCHANGED rvars

InLoop == apc = "loop" /\ i <= Len(doc)

\* a fence line that leaves inCodeBlock as it is
FenceLine_NoToggle ==
    /\ InLoop
    /\ isFence(lineText)
    /\ lastLineWasTerm' = FALSE
    /\ lastLineWasDefinition' = FALSE
    /\ i' = i + 1
    /\ UNCHANGED <<doc, selection, apc, inCodeBlock, builder, decorations>>
    /\ UNCHANGED hvars
    /\ UNCHANGED rvars

\* if (trimmedLineText.startsWith(three backticks)) { ...; continue; }
FenceLine ==
    /\ InLoop
    /\ isFence(lineText)
    /\ inCodeBlock' = ~inCodeBlock
    /\ lastLineWasTerm' = FALSE
    /\ lastLineWasDefinition' = FALSE
    /\ i' = i + 1
    /\ UNCHANGED <<doc, selection, apc, builder, decorations>>
    /\ UNCHANGED hvars
    /\ UNCHANGED rvars

\* if (inCodeBlock) { ...; continue; }
CodeLine ==
    /\ InLoop
    /\ ~isFence(lineText)
    /\ inCodeBlock
    /\ lastLineWasTerm' = FALSE
    /\ lastLineWasDefinition' = FALSE
    /\ i' = i + 1
    /\ UNCHANGED <<doc, selection, apc, inCodeBlock, builder, decorations>>
    /\ UNCHANGED hvars
    /\ UNCHANGED rvars

Classified == InLoop /\ ~isFence(lineText) /\ ~inCodeBlock

\* a blank line that leaves the run flags as they are
BlankLine_KeepsRun ==
    /\ Classified
    /\ trimmedLineText = <<>>
    /\ i' = i + 1
    /\ UNCHANGED <<doc, selection, apc, inCodeBlock, lastLineWasTerm,
                   lastLineWasDefinition, builder, decorations>>
    /\ UNCHANGED hvars
    /\ UNCHANGED rvars

\* if (trimmedLineText === '')
BlankLine ==
    /\ Classified
    /\ trimmedLineText = <<>>
    /\ lastLineWasTerm' = FALSE
    /\ lastLineWasDefinition' = FALSE
    /\ i' = i + 1
    /\ UNCHANGED <<doc, selection, apc, inCodeBlock, builder, decorations>>
    /\ UNCHANGED hvars
    /\ UNCHANGED rvars

\* the definition branch taken on the pattern alone
isDefinitionBranch_NoOpenRun == definitionMatch(lineText)

\* the definition branch giving way to the term test
isDefinitionBranch_TermFirst ==
    /\ definitionMatch(lineText) /\ (lastLineWasTerm \/ lastLineWasDefinition)
    /\ ~(isNextLineDefinition(nextLine) /\ ~isNotTerm(trimmedLineText))

isDefinitionBranch ==
    definitionMatch(lineText) /\ (lastLineWasTerm \/ lastLineWasDefinition)

\* the definition branch leaving lastLineWasTerm as it is
DefinitionLine_KeepsTerm ==
    /\ Classified
    /\ trimmedLineText # <<>>
    /\ isDefinitionBranch
    /\ builder' = builder \o definitionDecorations(doc, i, selection)
    /\ lastLineWasDefinition' = TRUE
    /\ i' = i + 1
    /\ UNCHANGED <<doc, selection, apc, inCodeBlock, lastLineWasTerm, decorations>>
    /\ UNCHANGED hvars
    /\ UNCHANGED rvars

\* else if (definitionMatch && (lastLineWasTerm || lastLineWasDefinition))
DefinitionLine ==
    /\ Classified
    /\ trimmedLineText # <<>>
    /\ isDefinitionBranch
    /\ builder' = builder \o definitionDecorations(doc, i, selection)
    /\ lastLineWasDefinition' = TRUE
    /\ lastLineWasTerm' = FALSE
    /\ i' = i + 1
    /\ UNCHANGED <<doc, selection, apc, inCodeBlock, decorations>>
    /\ UNCHANGED hvars
    /\ UNCHANGED rvars

isTermBranch == isNextLineDefinition(nextLine) /\ ~isNotTerm(trimmedLineText)

\* else if (isNextLineDefinition && !isNotTerm(trimmedLineText))
TermLine ==
    /\ Classified
    /\ trimmedLineText # <<>>
    /\ ~isDefinitionBranch
    /\ isTermBranch
    /\ builder' = Append(builder, lineDecoration(lineFrom(doc, i), "definition-list-dt"))
    /\ lastLineWasTerm' = TRUE
    /\ lastLineWasDefinition' = FALSE
    /\ i' = i + 1
    /\ UNCHANGED <<doc, selection, apc, inCodeBlock, decorations>>
    /\ UNCHANGED hvars
    /\ UNCHANGED rvars

\* the else branch leaving the run flags as they are
OtherLine_KeepsRun ==
    /\ Classified
    /\ trimmedLineText # <<>>
    /\ ~isDefinitionBranch
    /\ ~isTermBranch
    /\ i' = i + 1
    /\ UNCHANGED <<doc, selection, apc, inCodeBlock, lastLineWasTerm,
                   lastLineWasDefinition, builder, decorations>>
    /\ UNCHANGED hvars
    /\ UNCHANGED rvars

\* else
OtherLine ==
    /\ Classified
    /\ trimmedLineText # <<>>
    /\ ~isDefinitionBranch
    /\ ~isTermBranch
    /\ lastLineWasTerm' = FALSE
    /\ lastLineWasDefinition' = FALSE
    /\ i' = i + 1
    /\ UNCHANGED <<doc, selection, apc, inCodeBlock, builder, decorations>>
    /\ UNCHANGED hvars
    /\ UNCHANGED rvars

\* return builder.finish(), stored in this.decorations
BuildFinish ==
    /\ apc = "loop"
    /\ i > Len(doc)
    /\ decorations' = builder
    /\ passes' = Append(passes, finished(builder))
    /\ apc' = "done"
    /\ UNCHANGED <<doc, selection, i, inCodeBlock, lastLineWasTerm,
                   lastLineWasDefinition, builder>>
    /\ UNCHANGED <<live, upd, updates>>
    /\ UNCHANGED rvars

\* buildDecorations from line n on, as one fold over the lines
RECURSIVE scan(_, _, _, _, _)
scan(d, sel, n, inCode, open) ==
    IF n > Len(d) THEN <<>>
    ELSE LET text == d[n]
             following == IF n < Len(d) THEN d[n + 1] ELSE <<>>
         IN  IF isFence(text) THEN scan(d, sel, n + 1, ~inCode, FALSE)
             ELSE IF inCode THEN scan(d, sel, n + 1, inCode, FALSE)
             ELSE IF Trim(text) = <<>> THEN scan(d, sel, n + 1, FALSE, FALSE)
             ELSE IF definitionMatch(text) /\ open
                 THEN definitionDecorations(d, n, sel) \o scan(d, sel, n + 1, FALSE, TRUE)
             ELSE IF isNextLineDefinition(following) /\ ~isNotTerm(Trim(text))
                 THEN <<lineDecoration(lineFrom(d, n), "definition-list-dt")>>
                          \o scan(d, sel, n + 1, FALSE, TRUE)
             ELSE scan(d, sel, n + 1, FALSE, FALSE)

\* the value buildDecorations(view) returns
buildDecorations(d, sel, lv) ==
    IF ~isLivePreview(lv) THEN <<>> ELSE scan(d, sel, 1, FALSE, FALSE)

----------------------------------------------------------------------------
(* update(update: ViewUpdate) *)

Flags == [docChanged : BOOLEAN, viewportChanged : BOOLEAN, selectionSet : BOOLEAN]

\* the condition of update without the selectionSet flag
updateRebuilds_NoSelectionSet(u) == u.docChanged \/ u.viewportChanged

\* if (update.docChanged || update.viewportChanged || update.selectionSet)
updateRebuilds(u) == u.docChanged \/ u.viewportChanged \/ u.selectionSet

\* documents and selections the host hands to update
UpdDocs ==
    { << <<"a">>, <<":", " ", "b">> >>,
      << <<Backtick, Backtick, Backtick>>, <<":", " ", "b">> >>,
      << <<>>, <<"a">> >> }

\* a cursor at the start of the document or at the start of its last line
UpdSelections(d) == { {[from |-> p, to |-> p]} : p \in {0, lineFrom(d, Len(d))} }

\* The host delivers a ViewUpdate: a changed document sets docChanged, a
\* changed selection sets selectionSet unless it was mapped through a change.
Delivered(u, d, sel) ==
    /\ apc = "done"
    /\ updates < MaxUpdates
    /\ d # doc => u.docChanged
    /\ sel # selection => (u.selectionSet \/ u.docChanged)
    /\ doc' = d
    /\ selection' = sel
    /\ upd' = u
    /\ updates' = updates + 1

\* update with a flag set: this.decorations = this.buildDecorations(update.view)
UpdateRebuild ==
    \E u \in Flags, d \in UpdDocs, lv \in BOOLEAN :
        \E sel \in UpdSelections(d) :
            /\ Delivered(u, d, sel)
            /\ updateRebuilds(u)
            /\ live' = lv
            /\ apc' = "idle"
            /\ UNCHANGED <<i, inCodeBlock, lastLineWasTerm, lastLineWasDefinition,
                           builder, decorations, passes>>
            /\ UNCHANGED rvars

\* update with no flag set: this.decorations is left as it is
UpdateSkip ==
    \E u \in Flags, d \in UpdDocs, lv \in BOOLEAN :
        \E sel \in UpdSelections(d) :
            /\ Delivered(u, d, sel)
            /\ ~updateRebuilds(u)
            /\ live' = lv
            /\ UNCHANGED <<apc, i, inCodeBlock, lastLineWasTerm, lastLineWasDefinition,
                           builder, decorations, passes>>
            /\ UNCHANGED rvars

----------------------------------------------------------------------------
(* Rendered markup *)

\* '<br>' as it appears in innerHTML
BR == "<br>"

\* An element carrying class="footnote-backref footnote-link", as one token.
Backref == "<a class=footnote-backref footnote-link>"

\* The start of an <img ...> tag, as one token.
ImgTag == "<img"

RECURSIVE Split(_)
\* String.prototype.split('<br>')
Split(html) ==
    IF \A k \in 1..Len(html) : html[k] # BR THEN <<html>>
    ELSE LET k == CHOOSE k \in 1..Len(html) :
                    html[k] = BR /\ \A j \in 1..k - 1 : html[j] # BR
         IN  <<SubSeq(html, 1, k - 1)>> \o Split(SubSeq(html, k + 1, Len(html)))

RECURSIVE Join(_)
\* the innerHTML of a paragraph whose lines are ls
Join(ls) ==
    IF Len(ls) = 0 THEN <<>>
    ELSE IF Len(ls) = 1 THEN ls[1]
    ELSE ls[1] \o <<BR>> \o Join(Tail(ls))

\* String.prototype.includes('class="footnote-backref footnote-link"')
IncludesBackref(s) == \E k \in 1..Len(s) : s[k] = Backref

----------------------------------------------------------------------------
(* Regular expressions of definitionListPostProcessor *)

\* /^(\s*)([:~])\s(.+)/
ppDefinitionMatch(line) ==
    LET k == LeadingSpaces(line) IN
    /\ Len(line) >= k + 3
    /\ IsMarker(line[k + 1])
    /\ IsSpace(line[k + 2])

\* definitionMatch[3]
ppBody(line) == SubSeq(line, LeadingSpaces(line) + 3, Len(line))

ppIsNotTerm(content) ==
    \/ ReHeading(content)
    \/ ReListItem(content)
    \/ StartsWith(content, <<">">>)
    \/ StartsWith(content, <<ImgTag>>)
    \/ ReRule(content)
    \/ StartsWith(content, <<"[", "^">>)
    \/ IncludesBackref(content)
    \/ StartsWith(content, <<"|">>)
    \/ StartsWith(content, <<"$", "$">>)
    \/ StartsWith(content, <<"^">>)

----------------------------------------------------------------------------
(* definitionListPostProcessor *)

\* currentTerm = null; idx remembers the line the term text was read from
NoTerm == [set |-> FALSE, text |-> <<>>, idx |-> 0]

\* if (currentTerm): null and the empty string are both falsy
Truthy(term) == term.set /\ term.text # <<>>

\* an entry of newContent that is a string
strItem(text) == [kind |-> "str", text |-> text, children |-> <<>>]

\* an entry of newContent that is a <dl> element
dlItem(children) == [kind |-> "dl", text |-> <<>>, children |-> children]

child(tag, html) == [tag |-> tag, html |-> html]

\* newContent.push(currentTerm + '<br>') under if (currentTerm)
flushTerm(nc, term) ==
    IF Truthy(term) THEN Append(nc, strItem(term.text \o <<BR>>)) ELSE nc

\* a new <dl> for every definition, whether or not one is open
attachDefinition_AlwaysNew(nc, d, term, body) ==
    Append(nc, dlItem(<<child("dt", term.text), child("dd", body)>>))

\* the dt appended with every dd, also to a dl that is already open
attachDefinition_TermEach(nc, d, term, body) ==
    IF d = 0
        THEN Append(nc, dlItem(<<child("dt", term.text), child("dd", body)>>))
        ELSE [nc EXCEPT ![d].children = @ \o <<child("dt", term.text), child("dd", body)>>]

\* if (!dl) { create dl with its dt } ; dl.appendChild(dd)
attachDefinition(nc, d, term, body) ==
    IF d = 0
        THEN Append(nc, dlItem(<<child("dt", term.text), child("dd", body)>>))
        ELSE [nc EXCEPT ![d].children = Append(@, child("dd", body))]

RECURSIVE serializeChildren(_)
serializeChildren(cs) ==
    IF Len(cs) = 0 THEN <<>>
    ELSE <<"<" \o cs[1].tag \o ">">> \o cs[1].html \o <<"</" \o cs[1].tag \o ">">>
            \o serializeChildren(Tail(cs))

\* the innerHTML contributed by one entry of newContent
serialize(item) ==
    IF item.kind = "str" THEN item.text
    ELSE <<"<dl>">> \o serializeChildren(item.children) \o <<"</dl>">>

RECURSIVE serializeAll(_)
\* paragraph.innerHTML after newContent.forEach(...)
serializeAll(nc) ==
    IF Len(nc) = 0 THEN <<>> ELSE serialize(nc[1]) \o serializeAll(Tail(nc))

line == Trim(lines[ri + 1])

ppNextLine == IF ri < Len(lines) - 1 THEN Trim(lines[ri + 2]) ELSE <<>>

\* paragraphs.forEach entry: split the paragraph and reset the locals
RStart ==
    /\ rpc \in {"idle", "done"}
    /\ runs < MaxRuns
    /\ runs' = runs + 1
    /\ prevHTML' = paragraph
    /\ lines' = Split(paragraph)
    /\ ri' = 0
    /\ dl' = 0
    /\ currentTerm' = NoTerm
    /\ newContent' = <<>>
    /\ invalidateCurrentPair' = FALSE
    /\ placed' = [k \in 1..Len(Split(paragraph)) |-> "none"]
    /\ rpc' = "loop"
    /\ UNCHANGED paragraph
    /\ UNCHANGED avars

RInLoop == rpc = "loop" /\ ri < Len(lines)

isPPDefinitionBranch == ppDefinitionMatch(line) /\ ~invalidateCurrentPair

\* the test of definitionMatch[3] left out
invalidatedByBody_IgnoreBody == invalidateCurrentPair

\* invalidateCurrentPair after the test of definitionMatch[3]
invalidatedByBody == invalidateCurrentPair \/ IncludesBackref(ppBody(line))

\* if (currentTerm && !invalidateCurrentPair) { ... dl.appendChild(dd) }
AttachDefinition ==
    /\ RInLoop
    /\ isPPDefinitionBranch
    /\ Truthy(currentTerm) /\ ~invalidatedByBody
    /\ newContent' = attachDefinition(newContent, dl, currentTerm, ppBody(line))
    /\ dl' = IF dl = 0 THEN Len(newContent) + 1 ELSE dl
    /\ placed' = [placed EXCEPT ![ri + 1] = "dd", ![currentTerm.idx] = "dt"]
    /\ invalidateCurrentPair' = invalidatedByBody
    /\ ri' = ri + 1
    /\ UNCHANGED <<paragraph, prevHTML, rpc, runs, lines, currentTerm>>
    /\ UNCHANGED avars

\* the else of the definition branch without the reset of invalidateCurrentPair
PassDefinition_KeepsInvalid ==
    /\ RInLoop
    /\ isPPDefinitionBranch
    /\ ~(Truthy(currentTerm) /\ ~invalidatedByBody)
    /\ newContent' = Append(flushTerm(newContent, currentTerm), strItem(line \o <<BR>>))
    /\ currentTerm' = NoTerm
    /\ invalidateCurrentPair' = invalidatedByBody
    /\ ri' = ri + 1
    /\ UNCHANGED <<paragraph, prevHTML, rpc, runs, lines, dl, placed>>
    /\ UNCHANGED avars

\* the else of the definition branch: the marker line stays plain content
PassDefinition ==
    /\ RInLoop
    /\ isPPDefinitionBranch
    /\ ~(Truthy(currentTerm) /\ ~invalidatedByBody)
    /\ newContent' = Append(flushTerm(newContent, currentTerm), strItem(line \o <<BR>>))
    /\ currentTerm' = NoTerm
    /\ invalidateCurrentPair' = FALSE
    /\ ri' = ri + 1
    /\ UNCHANGED <<paragraph, prevHTML, rpc, runs, lines, dl, placed>>
    /\ UNCHANGED avars

isPPTermBranch ==
    ppDefinitionMatch(ppNextLine) /\ ~ppIsNotTerm(line) /\ ~invalidateCurrentPair

\* else if (isNextLineDefinition && !isNotTerm(line) && !invalidateCurrentPair)
StartTerm ==
    /\ RInLoop
    /\ ~isPPDefinitionBranch
    /\ isPPTermBranch
    /\ newContent' = flushTerm(newContent, currentTerm)
    /\ currentTerm' = [set |-> TRUE, text |-> line, idx |-> ri + 1]
    /\ dl' = 0
    /\ ri' = ri + 1
    /\ UNCHANGED <<paragraph, prevHTML, rpc, runs, lines, invalidateCurrentPair, placed>>
    /\ UNCHANGED avars

\* else
PassLine ==
    /\ RInLoop
    /\ ~isPPDefinitionBranch
    /\ ~isPPTermBranch
    /\ newContent' = Append(flushTerm(newContent, currentTerm), strItem(line \o <<BR>>))
    /\ currentTerm' = NoTerm
    /\ dl' = 0
    /\ invalidateCurrentPair' = FALSE
    /\ ri' = ri + 1
    /\ UNCHANGED <<paragraph, prevHTML, rpc, runs, lines, placed>>
    /\ UNCHANGED avars

\* paragraph.innerHTML = ''; newContent.forEach(...)
RFinish ==
    /\ rpc = "loop"
    /\ ri >= Len(lines)
    /\ paragraph' = serializeAll(newContent)
    /\ rpc' = "done"
    /\ UNCHANGED <<prevHTML, runs, lines, ri, dl, currentTerm, newContent,
                   invalidateCurrentPair, placed>>
    /\ UNCHANGED avars

\* The post-processor before its first call.
RIdle ==
    /\ prevHTML = <<>>
    /\ rpc = "idle"
    /\ runs = 0
    /\ lines = <<>>
    /\ ri = 0
    /\ dl = 0
    /\ currentTerm = NoTerm
    /\ newContent = <<>>
    /\ invalidateCurrentPair = FALSE
    /\ placed = <<>>

\* a ViewUpdate with no flag set
NoFlags == [docChanged |-> FALSE, viewportChanged |-> FALSE, selectionSet |-> FALSE]

\* The annotation pass before the plugin instance is constructed.
AIdle ==
    /\ apc = "idle"
    /\ i = 1
    /\ inCodeBlock = FALSE
    /\ lastLineWasTerm = FALSE
    /\ lastLineWasDefinition = FALSE
    /\ builder = <<>>
    /\ decorations = <<>>
    /\ upd = NoFlags
    /\ updates = 0
    /\ passes = <<>>

Init ==
    /\ doc \in Docs
    /\ selection \in SelectionsOf(doc)
    /\ live \in BOOLEAN
    /\ AIdle
    /\ paragraph = <<>>
    /\ RIdle

Next ==
    \/ BuildNone
    \/ BuildStart
    \/ FenceLine
    \/ CodeLine
    \/ BlankLine
    \/ DefinitionLine
    \/ TermLine
    \/ OtherLine
    \/ BuildFinish

Spec == Init /\ [][Next]_vars

----------------------------------------------------------------------------
(* The restructurer on rendered paragraphs *)

\* Line fragments of the paragraphs explored.
ParaLines ==
    { <<"a">>,
      <<":", " ", "b">>,
      <<"~", " ", "c">>,
      <<":", " ", "f", Backref>>,
      <<"-", " ", "x">>,
      <<>> }

Paragraphs == { Join(ls) : ls \in UNION { [1..n -> ParaLines] : n \in 1..MaxParaLines } }

\* A document the annotation pass is not run on.
EmptyDoc == << <<>> >>

InitR ==
    /\ doc = EmptyDoc
    /\ selection = {[from |-> 0, to |-> 0]}
    /\ live = TRUE
    /\ AIdle
    /\ paragraph \in Paragraphs
    /\ RIdle

NextR ==
    \/ RStart
    \/ AttachDefinition
    \/ PassDefinition
    \/ StartTerm
    \/ PassLine
    \/ RFinish

SpecR == InitR /\ [][NextR]_vars

----------------------------------------------------------------------------
(* Both consumers on the same lines *)

\* Line texts without markup.
PlainLines ==
    { <<"a">>,
      <<>>,
      <<Backtick, Backtick, Backtick>>,
      <<":", " ", "b">>,
      <<"~", " ", "c">>,
      <<" ", ":", " ", "b">>,
      <<":", " ">>,
      <<"-", " ", "x">>,
      <<"#", " ", "h">> }

PlainDocs == UNION { [1..n -> PlainLines] : n \in 1..MaxLines }

InitAgree ==
    /\ doc \in PlainDocs
    /\ selection = {[from |-> 0, to |-> 0]}
    /\ live \in BOOLEAN
    /\ AIdle
    /\ paragraph = Join(doc)
    /\ RIdle

\* The two passes never interact; the restructurer is run after the annotation pass.
NextAgree ==
    \/ Next
    \/ (apc = "done" /\ NextR)

SpecAgree == InitAgree /\ [][NextAgree]_vars

----------------------------------------------------------------------------
(* The annotation pass on lines of every block kind *)

RoleLines ==
    { <<"a">>,
      <<":", " ", "b">>,
      <<>>,
      <<Backtick, Backtick, Backtick>>,
      <<"#", " ", "h">>,
      <<"-", " ", "x">>,
      <<"*", " ", "x">>,
      <<">", " ", "a">>,
      <<">", " ", ":", " ", "b">> }

RoleDocs == UNION { [1..n -> RoleLines] : n \in 1..MaxRoleLines }

InitRoles ==
    /\ doc \in RoleDocs
    /\ selection = {[from |-> 0, to |-> 0]}
    /\ live \in BOOLEAN
    /\ AIdle
    /\ paragraph = <<>>
    /\ RIdle

SpecRoles == InitRoles /\ [][Next]_vars

----------------------------------------------------------------------------
(* The annotation pass with the cursor at the start of the document *)

InitLines ==
    /\ doc \in Docs
    /\ selection = {[from |-> 0, to |-> 0]}
    /\ live \in BOOLEAN
    /\ AIdle
    /\ paragraph = <<>>
    /\ RIdle

SpecLines == InitLines /\ [][Next]_vars

----------------------------------------------------------------------------
(* The plugin instance under host updates *)

InitU ==
    /\ doc \in UpdDocs
    /\ selection \in UpdSelections(doc)
    /\ live \in BOOLEAN
    /\ AIdle
    /\ paragraph = <<>>
    /\ RIdle

NextU ==
    \/ Next
    \/ UpdateRebuild
    \/ UpdateSkip

SpecU == InitU /\ [][NextU]_vars

----------------------------------------------------------------------------
(* Roles read off the directives of the annotation pass *)

DDClasses == {"definition-list-dd-indented", "definition-list-dd-reg"}

MarkerClasses == {"definition-list-visible-marker", "definition-list-hidden-marker"}

\* line n carries the term row class
dtRow(n) ==
    \E k \in DOMAIN builder :
        builder[k] = lineDecoration(lineFrom(doc, n), "definition-list-dt")

\* line n carries a definition row class
ddRow(n) ==
    \E k \in DOMAIN builder :
        /\ builder[k].type = "line"
        /\ builder[k].from = lineFrom(doc, n)
        /\ builder[k].cls \in DDClasses

\* the marker directives that start inside line n
markersOf(n) ==
    { k \in DOMAIN builder :
        /\ builder[k].type = "mark"
        /\ builder[k].cls \in MarkerClasses
        /\ lineFrom(doc, n) <= builder[k].from
        /\ builder[k].from <= lineTo(doc, n) }

fencesBefore(n) == Cardinality({ m \in 1..n - 1 : isFence(doc[m]) })

\* line n is a fence line or lies after an odd number of fence lines
inFencedRegion(n) == isFence(doc[n]) \/ fencesBefore(n) % 2 = 1

\* C1: a line that matches the marker pattern while the line before it was
\* classified neither Term nor Definition is never classified Definition:
\* it gets no definition row class and no marker mark.
C1_LoneMarkerNeverDefinition ==
    \A n \in 1..Len(doc) :
        (definitionMatch(doc[n]) /\ (n = 1 \/ ~(dtRow(n - 1) \/ ddRow(n - 1))))
            => (~ddRow(n) /\ markersOf(n) = {})

C1_Witness ==
    /\ apc = "done"
    /\ live
    /\ \E n \in 2..Len(doc) :
        /\ definitionMatch(doc[n])
        /\ isNextLineDefinition(doc[n])
        /\ Trim(doc[n - 1]) # <<>>
        /\ ~isFence(doc[n - 1])
        /\ fencesBefore(n) = 0
        /\ ~dtRow(n - 1) /\ ~ddRow(n - 1)
        /\ ~ddRow(n)

\* C2: every fence line and every line between an opening fence and its
\* closing fence (or the end of the document when the fence is unclosed)
\* gets no Term and no Definition classification, whatever its content.
C2_FencedLinesAreOther ==
    \A n \in 1..Len(doc) :
        inFencedRegion(n) => (~dtRow(n) /\ ~ddRow(n) /\ markersOf(n) = {})

C2_Witness ==
    /\ apc = "done"
    /\ live
    /\ \E n \in 2..Len(doc) - 1 :
        /\ ~isFence(doc[n]) /\ ~isFence(doc[n + 1])
        /\ fencesBefore(n) = 1
        /\ Trim(doc[n]) # <<>>
        /\ ~isNotTerm(Trim(doc[n]))
        /\ ~definitionMatch(doc[n])
        /\ definitionMatch(doc[n + 1])
        /\ isNextLineDefinition(doc[n + 1])
        /\ ~dtRow(n) /\ ~ddRow(n + 1)

\* C3 (as claimed): every line classified Definition has 0, 1 or 2
\* whitespace characters before its marker, and the marker is ':' or '~'.
C3_IndentAtMostTwo ==
    \A n \in 1..Len(doc) :
        ddRow(n) =>
            /\ LeadingSpaces(doc[n]) \in {0, 1, 2}
            /\ LeadingSpaces(doc[n]) < Len(doc[n])
            /\ IsMarker(doc[n][LeadingSpaces(doc[n]) + 1])

\* C4: every Definition line has exactly one marker directive, whose span
\* covers the marker and the space after it; it is the visible one if and
\* only if some range of the selection satisfies range.from <= span.to and
\* range.to >= span.from (both ends inclusive), and the hidden one otherwise.
C4_ExactlyOneMarkerDirective ==
    \A n \in 1..Len(doc) :
        ddRow(n) =>
            \E k \in markersOf(n) :
                /\ markersOf(n) = {k}
                /\ builder[k].from <= lineFrom(doc, n) + LeadingSpaces(doc[n])
                /\ builder[k].to = lineFrom(doc, n) + LeadingSpaces(doc[n]) + 2
                /\ builder[k].cls = "definition-list-visible-marker"
                    <=> (\E r \in selection :
                            r.from <= builder[k].to /\ r.to >= builder[k].from)
                /\ builder[k].cls = "definition-list-hidden-marker"
                    <=> ~(\E r \in selection :
                            r.from <= builder[k].to /\ r.to >= builder[k].from)

\* a cursor sitting exactly at the end of the span of a Definition line
C4_Witness ==
    /\ apc = "done"
    /\ \E n \in 1..Len(doc) :
        /\ ddRow(n)
        /\ \E k \in markersOf(n) :
            /\ builder[k].cls = "definition-list-visible-marker"
            /\ \A r \in selection : r.from = builder[k].to /\ r.to = r.from

\* C5 (as claimed): a Definition line whose marker span no range overlaps
\* has, besides the hidden-marker directive, exactly one margin-reserve
\* directive of length one right after the span; an overlapped one has none.
C5_MarginReserve ==
    \A n \in 1..Len(doc) :
        \A k \in markersOf(n) :
            LET reserves == { j \in DOMAIN builder :
                                /\ builder[j].cls = "definition-list-margin-reserve"
                                /\ builder[j].from = builder[k].to
                                /\ builder[j].to = builder[k].to + 1 }
            IN  IF builder[k].cls = "definition-list-hidden-marker"
                    THEN Cardinality(reserves) = 1
                    ELSE reserves = {}

----------------------------------------------------------------------------
(* Runs of a paragraph, stated on its lines *)

\* the trimmed text of line j of the paragraph (1-based)
T(j) == Trim(lines[j])

\* a marker line with a body that carries no footnote back-reference
attachable(j) ==
    /\ j \in 1..Len(lines)
    /\ ppDefinitionMatch(T(j))
    /\ ~IncludesBackref(ppBody(T(j)))

\* a non-empty line that is no marker line, passes the not-a-term
\* predicate and is followed by a marker line
termLine(j) ==
    /\ j \in 1..Len(lines) - 1
    /\ T(j) # <<>>
    /\ ~ppDefinitionMatch(T(j))
    /\ ~ppIsNotTerm(T(j))
    /\ ppDefinitionMatch(T(j + 1))

\* a term line whose next line attaches to it
runStart(j) == termLine(j) /\ attachable(j + 1)

\* the last line of the run that starts at line j
runEnd(j) ==
    CHOOSE e \in j + 1..Len(lines) :
        /\ \A m \in j + 1..e : attachable(m)
        /\ ~attachable(e + 1)

\* line j is a definition of the run that starts at some line before it
definitionLine(j) ==
    \E k \in 1..j - 1 : runStart(k) /\ j <= runEnd(k)

\* the list node of the run that starts at line j
runNode(j) ==
    dlItem(<<child("dt", T(j))>>
           \o [m \in 1..runEnd(j) - j |-> child("dd", ppBody(T(j + m)))])

RECURSIVE expectedNodes(_)
\* the list nodes of the runs that start at line j or later, in line order
expectedNodes(j) ==
    IF j > Len(lines) THEN <<>>
    ELSE IF runStart(j) THEN <<runNode(j)>> \o expectedNodes(runEnd(j) + 1)
    ELSE expectedNodes(j + 1)

RECURSIVE expectedOutput(_)
\* one list node per run, interleaved with the other lines, in line order
expectedOutput(j) ==
    IF j > Len(lines) THEN <<>>
    ELSE IF runStart(j) THEN <<runNode(j)>> \o expectedOutput(runEnd(j) + 1)
    ELSE <<strItem(T(j) \o <<BR>>)>> \o expectedOutput(j + 1)

IsDl(item) == item.kind = "dl"

\* C6 (as claimed): a paragraph without any run has, after the pass, exactly
\* the content it had before the pass.
C6_NoRunLeavesParagraph ==
    (rpc = "done" /\ expectedNodes(1) = <<>>) => paragraph = prevHTML

\* C7 (as claimed): a second pass over the result of a first pass changes
\* nothing.
C7_Idempotent ==
    (rpc = "done" /\ runs = 2) => paragraph = prevHTML

\* C8: the list nodes of the output are exactly the runs of the paragraph,
\* in order: one node per maximal run, holding the term line's content and
\* the bodies of its definition lines in their order; a term whose marker
\* line does not attach is emitted as plain content and is in no list node.
C8_OneNodePerRun ==
    rpc = "done" =>
        /\ SelectSeq(newContent, IsDl) = expectedNodes(1)
        /\ \A j \in 1..Len(lines) :
            (termLine(j) /\ ~attachable(j + 1)) =>
                /\ placed[j] # "dt"
                /\ \E k \in DOMAIN newContent :
                      newContent[k] = strItem(T(j) \o <<BR>>)

\* a run with two definitions next to a term whose marker line is excluded
C8_Witness ==
    /\ rpc = "done"
    /\ runs = 1
    /\ \E j \in 1..Len(lines) : runStart(j) /\ runEnd(j) >= j + 2
    /\ \E j \in 1..Len(lines) : termLine(j) /\ ~attachable(j + 1)

\* two runs with a line between them that belongs to no run
severalRuns ==
    \E j, k \in 1..Len(lines) :
        /\ runStart(j) /\ runStart(k)
        /\ \E m \in runEnd(j) + 1..k - 1 : ~runStart(m) /\ ~definitionLine(m)

\* C9 (as claimed): for a paragraph with several runs separated by other
\* lines, the output is one list node per run interleaved with the other
\* lines, each in its original position.
C9_RunsInterleaved ==
    (rpc = "done" /\ runs = 1 /\ severalRuns) => newContent = expectedOutput(1)

\* C10 (as claimed): on the same non-blank, non-fenced lines, the lines the
\* annotation pass classifies Term (Definition) are the lines whose content
\* the restructurer places in a dt (dd).
C10_ConsumersAgree ==
    (/\ apc = "done" /\ rpc = "done" /\ runs = 1 /\ live
     /\ \A n \in 1..Len(doc) : Trim(doc[n]) # <<>> /\ ~isFence(doc[n])) =>
        /\ { n \in 1..Len(doc) : dtRow(n) } = { n \in 1..Len(lines) : placed[n] = "dt" }
        /\ { n \in 1..Len(doc) : ddRow(n) } = { n \in 1..Len(lines) : placed[n] = "dd" }

----------------------------------------------------------------------------
(* The pass as a whole and its re-invocation *)

\* line n reads as a term followed by its definition
pairAt(d, n) ==
    /\ n < Len(d)
    /\ Trim(d[n]) # <<>>
    /\ ~isFence(d[n])
    /\ ~definitionMatch(d[n])
    /\ ~isNotTerm(Trim(d[n]))
    /\ definitionMatch(d[n + 1])

\* C11: while the surface is not in live-preview mode, the pass never enters
\* its loop (no line is classified) and what it returns and stores is the
\* empty directive set, for every document and selection.
C11_NotLiveReturnsNone ==
    ~live => /\ apc # "loop"
             /\ builder = <<>>
             /\ apc = "done" => decorations = <<>>

C11_Witness ==
    /\ ~live
    /\ apc = "done"
    /\ pairAt(doc, 1)
    /\ \E r \in selection : r.from = lineFrom(doc, 2)

\* C12: after a host update with at least one of docChanged, viewportChanged,
\* selectionSet, the stored set is the full rebuild from that update's
\* document and selection alone; an update with no flag leaves it unchanged.
C12_UpdateRebuildsOrKeeps ==
    [][ /\ (/\ apc' = "done"
            /\ updates' >= 1
            /\ (upd'.docChanged \/ upd'.viewportChanged \/ upd'.selectionSet))
               => decorations' = buildDecorations(doc', selection', live')
        /\ (/\ updates' = updates + 1
            /\ ~(upd'.docChanged \/ upd'.viewportChanged \/ upd'.selectionSet))
               => decorations' = decorations ]_vars

\* a second update, carrying only selectionSet, has moved the cursor onto
\* the marker of a Definition line and the stored set has been rebuilt
C12_Witness ==
    /\ apc = "done"
    /\ updates = 2
    /\ live
    /\ upd = [docChanged |-> FALSE, viewportChanged |-> FALSE, selectionSet |-> TRUE]
    /\ pairAt(doc, 1)
    /\ \E k \in DOMAIN decorations :
           decorations[k].cls = "definition-list-visible-marker"

----------------------------------------------------------------------------
(* The footnote back-reference exclusion of the restructurer *)

\* the restructurer is about to read a marker line whose body holds the
\* footnote back-reference markup
atBackrefMarker ==
    /\ RInLoop
    /\ ppDefinitionMatch(line)
    /\ IncludesBackref(ppBody(line))

\* C13: a marker line whose body holds the footnote back-reference markup is
\* never attached as a definition and starts no list node; a pending term
\* that no definition has been paired with yet is emitted as plain content,
\* followed by the marker line as plain content.
C13_BackrefInvalidatesPair ==
    [][ (atBackrefMarker /\ ri' = ri + 1) =>
            /\ placed'[ri + 1] = "none"
            /\ dl' = dl
            /\ { k \in DOMAIN newContent' : IsDl(newContent'[k]) }
                   = { k \in DOMAIN newContent : IsDl(newContent[k]) }
            /\ (Truthy(currentTerm) /\ dl = 0) =>
                   /\ newContent' = newContent \o << strItem(currentTerm.text \o <<BR>>),
                                                     strItem(line \o <<BR>>) >>
                   /\ placed'[currentTerm.idx] = "none"
                   /\ ~Truthy(currentTerm') ]_vars

\* a term directly followed by a back-reference marker line has been read
C13_Witness ==
    /\ rpc = "loop"
    /\ runs = 1
    /\ ri = 2
    /\ T(1) = <<"a">>
    /\ ppDefinitionMatch(T(2)) /\ IncludesBackref(ppBody(T(2)))
    /\ newContent = << strItem(T(1) \o <<BR>>), strItem(T(2) \o <<BR>>) >>
    /\ placed[1] = "none" /\ placed[2] = "none"

----------------------------------------------------------------------------
(* Roles of the annotation pass in context *)

\* the pass has run in live-preview mode and has read line n
processed(n) == live /\ (apc = "done" \/ (apc = "loop" /\ n < i))

\* the spec's list-item pattern /^\s*(-|\*|\+|\d+\.)\s/
ReListItemAnyBullet(content) ==
    LET k == LeadingSpaces(content)
        r == SubSeq(content, k + 1, Len(content))
    IN  \/ ReListItem(content)
        \/ Len(r) >= 2 /\ r[1] \in {"*", "+"} /\ IsSpace(r[2])

\* length of the leading block-quote prefix /^(\s*>\s*)*/
RECURSIVE blockquotePrefixLen(_)
blockquotePrefixLen(s) ==
    LET k == LeadingSpaces(s) IN
    IF k < Len(s) /\ s[k + 1] = ">"
        THEN LET rest == SubSeq(s, k + 2, Len(s))
                 w == LeadingSpaces(rest)
             IN  k + 1 + w + blockquotePrefixLen(SubSeq(rest, w + 1, Len(rest)))
        ELSE 0

stripBlockquote(s) == SubSeq(s, blockquotePrefixLen(s) + 1, Len(s))

\* C14 (as claimed): a line is classified Term only if the line right before
\* it is neither a heading nor a list item.
C14_NoTermAfterHeadingOrList ==
    \A n \in 2..Len(doc) :
        dtRow(n) => /\ ~ReHeading(Trim(doc[n - 1]))
                    /\ ~ReListItem(Trim(doc[n - 1]))

\* C15 (as claimed): a line that matches the marker pattern while the line
\* before it was classified neither Term nor Definition is classified Other,
\* neither Definition nor Term.
C15_LoneMarkerIsOther ==
    \A n \in 1..Len(doc) :
        (/\ processed(n)
         /\ definitionMatch(doc[n])
         /\ (n = 1 \/ ~(dtRow(n - 1) \/ ddRow(n - 1))))
            => (~ddRow(n) /\ ~dtRow(n))

\* C16 (as claimed): no line whose content is a heading, a list item with
\* any of the bullets '-', '*', '+' or a number, or any other excluded kind
\* is classified Term.
C16_ExcludedNeverTerm ==
    \A n \in 1..Len(doc) :
        dtRow(n) => /\ ~isNotTerm(Trim(doc[n]))
                    /\ ~ReListItemAnyBullet(Trim(doc[n]))

\* C17: a marker line whose immediately preceding line is blank is never
\* classified Definition, whatever preceded the blank line.
C17_BlankClosesRun ==
    \A n \in 2..Len(doc) :
        (Trim(doc[n - 1]) = <<>> /\ definitionMatch(doc[n])) => ~ddRow(n)

\* a run, a blank line, then a marker line that is not a Definition
C17_Witness ==
    /\ apc = "done"
    /\ live
    /\ \E n \in 3..Len(doc) :
        /\ dtRow(n - 2) \/ ddRow(n - 2)
        /\ Trim(doc[n - 1]) = <<>>
        /\ definitionMatch(doc[n])
        /\ ~ddRow(n)

\* C18: a line that matches the marker pattern right after a line classified
\* Term or Definition is classified Definition and not Term, also when the
\* line after it matches the marker pattern and the line itself passes the
\* not-a-term predicate.
C18_DefinitionBeatsTerm ==
    \A n \in 2..Len(doc) :
        (/\ processed(n)
         /\ definitionMatch(doc[n])
         /\ (dtRow(n - 1) \/ ddRow(n - 1)))
            => (ddRow(n) /\ ~dtRow(n))

\* a Definition that the term branch would have accepted
C18_Witness ==
    /\ apc = "done"
    /\ \E n \in 2..Len(doc) - 1 :
        /\ dtRow(n - 1)
        /\ definitionMatch(doc[n])
        /\ ~isNotTerm(Trim(doc[n]))
        /\ isNextLineDefinition(doc[n + 1])
        /\ ddRow(n) /\ ~dtRow(n)
        /\ ddRow(n + 1)

\* lines n and n + 1 carry the same block-quote prefix and read, without it,
\* as a term followed by its definition
quotedPairAt(n) ==
    /\ n < Len(doc)
    /\ blockquotePrefixLen(doc[n]) > 0
    /\ blockquotePrefixLen(doc[n + 1]) = blockquotePrefixLen(doc[n])
    /\ LET a == stripBlockquote(doc[n])
           b == stripBlockquote(doc[n + 1])
       IN  /\ Trim(a) # <<>>
           /\ ~isFence(a)
           /\ ~definitionMatch(a)
           /\ ~isNotTerm(Trim(a))
           /\ definitionMatch(b)

\* C19 (as claimed): a term and its definition that carry the same leading
\* block-quote prefix get the roles Term and Definition, as they do without
\* the prefix.
C19_BlockquoteStripped ==
    \A n \in 1..Len(doc) :
        (quotedPairAt(n) /\ processed(n + 1) /\ ~inFencedRegion(n))
            => (dtRow(n) /\ ddRow(n + 1))

----------------------------------------------------------------------------
(* The span of the marker directive *)

\* some range of the selection overlaps [from, to], both ends inclusive
overlaps(from, to) == \E r \in selection : r.from <= to /\ r.to >= from

\* indent of line n after its block-quote prefix
indentAfterPrefix(n) == LeadingSpaces(stripBlockquote(doc[n]))

\* C20 (as claimed): the marker directive of a Definition line with indent
\* k in {0,1,2} and block-quote prefix length p starts at lineStart + p + k
\* and ends at lineStart + p + k + 2, and the overlap test is made on that span.
C20_SpanExcludesIndent ==
    \A n \in 1..Len(doc) :
        (ddRow(n) /\ indentAfterPrefix(n) \in {0, 1, 2}) =>
            LET start == lineFrom(doc, n) + blockquotePrefixLen(doc[n]) + indentAfterPrefix(n)
            IN  \E k \in markersOf(n) :
                    /\ builder[k].from = start
                    /\ builder[k].to = start + 2
                    /\ builder[k].cls = "definition-list-visible-marker"
                           <=> overlaps(start, start + 2)

\* C20 (amended): the marker directive of a Definition line with indent k
\* starts at lineStart and ends at lineStart + k + 2: it covers the leading
\* indent, the marker and the space after it, and that whole span is what
\* the overlap test is made on.
C20_SpanFromLineStart ==
    \A n \in 1..Len(doc) :
        ddRow(n) =>
            LET start == lineFrom(doc, n)
                end == lineFrom(doc, n) + LeadingSpaces(doc[n]) + 2
            IN  \E k \in markersOf(n) :
                    /\ markersOf(n) = {k}
                    /\ builder[k].from = start
                    /\ builder[k].to = end
                    /\ builder[k].cls = "definition-list-visible-marker"
                           <=> overlaps(start, end)

\* an indented Definition line whose marker is visible because the cursor
\* sits in the indent, before the marker
C20_Witness ==
    /\ apc = "done"
    /\ \E n \in 1..Len(doc) :
        /\ ddRow(n)
        /\ LeadingSpaces(doc[n]) >= 1
        /\ selection = {[from |-> lineFrom(doc, n), to |-> lineFrom(doc, n)]}
        /\ \E k \in markersOf(n) : builder[k].cls = "definition-list-visible-marker"

----------------------------------------------------------------------------
(* Shape of runs and of list nodes *)

\* C21: every line classified Definition closes a contiguous run: going
\* backwards from it there are only Definition lines, then one Term line,
\* with no line of any other kind in between.
C21_DefinitionInRun ==
    \A n \in 1..Len(doc) :
        ddRow(n) =>
            \E t \in 1..n - 1 :
                /\ dtRow(t) /\ ~ddRow(t)
                /\ \A m \in t + 1..n : ddRow(m) /\ ~dtRow(m)

\* a Term followed by two Definition lines
C21_Witness ==
    /\ apc = "done"
    /\ \E n \in 3..Len(doc) : dtRow(n - 2) /\ ddRow(n - 1) /\ ddRow(n)

\* C22: every list node of the restructurer holds exactly one term entry,
\* placed first, followed by at least one definition entry.
C22_ListNodeShape ==
    \A k \in DOMAIN newContent :
        IsDl(newContent[k]) =>
            LET cs == newContent[k].children IN
            /\ Len(cs) >= 2
            /\ cs[1].tag = "dt"
            /\ \A j \in 2..Len(cs) : cs[j].tag = "dd"

\* a list node with one term and two definitions
C22_Witness ==
    /\ rpc = "done"
    /\ \E k \in DOMAIN newContent :
        /\ IsDl(newContent[k])
        /\ Len(newContent[k].children) = 3

----------------------------------------------------------------------------
(* Lookups at the first and the last line *)

\* C23: both passes read only lines inside the document or paragraph, the
\* look-ahead of the last line is the empty string, the last line is never
\* classified Term and the first line is never classified Definition.
C23_BoundaryLookups ==
    /\ InLoop => /\ i >= 1
                 /\ i = Len(doc) => nextLine = <<>>
    /\ ~dtRow(Len(doc))
    /\ ~ddRow(1)
    /\ RInLoop => /\ ri >= 0
                  /\ ri = Len(lines) - 1 => ppNextLine = <<>>
    /\ rpc \in {"loop", "done"} =>
            /\ placed[Len(lines)] # "dt"
            /\ placed[1] # "dd"

\* both passes are over a document that starts with a marker line and ends
\* with a line that passes the not-a-term predicate
C23_Witness ==
    /\ apc = "done" /\ live
    /\ rpc = "done"
    /\ Len(doc) >= 2
    /\ \A n \in 1..Len(doc) : ~isFence(doc[n])
    /\ definitionMatch(doc[1]) /\ ppDefinitionMatch(T(1))
    /\ LET last == Trim(doc[Len(doc)])
       IN  last # <<>> /\ ~isNotTerm(last) /\ ~ppIsNotTerm(last)

----------------------------------------------------------------------------
(* Order and extent of the directives *)

\* the line a position lies in
lineAt(pos) == CHOOSE n \in 1..Len(doc) : lineFrom(doc, n) <= pos /\ pos <= lineTo(doc, n)

\* the line-class directives of line n
rowsOf(n) ==
    { k \in DOMAIN builder :
        builder[k].type = "line" /\ builder[k].from = lineFrom(doc, n) }

\* C24: the directives are added in document order and without duplication:
\* start offsets never decrease, a line has at most one line-class directive
\* and at most one marker directive, and directives of different lines do
\* not overlap.
C24_DirectivesInOrder ==
    /\ \A j, k \in DOMAIN builder :
          j < k => /\ builder[j].from <= builder[k].from
                   /\ lineAt(builder[j].from) # lineAt(builder[k].from)
                          => builder[j].to < builder[k].from
    /\ \A n \in 1..Len(doc) :
          /\ Cardinality(rowsOf(n)) <= 1
          /\ Cardinality(markersOf(n)) <= 1

\* a Term and two Definition lines, five directives in all
C24_Witness ==
    /\ apc = "done"
    /\ Len(builder) = 5
    /\ \E n \in 3..Len(doc) :
          /\ dtRow(n - 2)
          /\ ddRow(n - 1) /\ markersOf(n - 1) # {}
          /\ ddRow(n) /\ markersOf(n) # {}

----------------------------------------------------------------------------
(* Passes over the same input *)

\* C25: two passes over the same lines and the same selection (in the same
\* mode) return the same directive list, whatever passes ran in between,
\* and every pass starts with inCodeBlock, lastLineWasTerm and
\* lastLineWasDefinition false and an empty builder.
C25_PassDeterministic ==
    /\ \A j, k \in DOMAIN passes :
          (/\ passes[j].doc = passes[k].doc
           /\ passes[j].selection = passes[k].selection
           /\ passes[j].live = passes[k].live)
              => passes[j].decorations = passes[k].decorations
    /\ (apc = "loop" /\ i = 1) =>
          /\ ~inCodeBlock /\ ~lastLineWasTerm /\ ~lastLineWasDefinition
          /\ builder = <<>>

\* the first and the third pass had the same input and classified lines,
\* the pass in between ran on another document
C25_Witness ==
    /\ Len(passes) = 3
    /\ passes[1] = passes[3]
    /\ passes[2].doc # passes[1].doc
    /\ passes[2].live
    /\ passes[1].decorations # <<>>

----------------------------------------------------------------------------
(* Content carried through the restructurer *)

\* the text of a plain item without its trailing '<br>'
plainText(item) ==
    IF Len(item.text) > 0 /\ item.text[Len(item.text)] = BR
        THEN SubSeq(item.text, 1, Len(item.text) - 1)
        ELSE item.text

RECURSIVE contentsOf(_)
\* the contents of the output in output order: plain lines, terms, bodies
contentsOf(nc) ==
    IF Len(nc) = 0 THEN <<>>
    ELSE (IF IsDl(nc[1])
              THEN [m \in 1..Len(nc[1].children) |-> nc[1].children[m].html]
              ELSE <<plainText(nc[1])>>)
         \o contentsOf(Tail(nc))

\* the content of input line j as the output is to carry it
contentOfLine(j) == IF placed[j] = "dd" THEN ppBody(T(j)) ELSE T(j)

\* C26 (as claimed): the output holds the content of every input line exactly
\* once, as a term entry, a definition body or a plain line, in input order.
C26_NoDropNoDuplicate ==
    (rpc = "done" /\ runs = 1) =>
        contentsOf(newContent) = [j \in 1..Len(lines) |-> contentOfLine(j)]

----------------------------------------------------------------------------
(* Look-ahead and marker test *)

\* C27: every line classified Term is immediately followed by a line
\* classified Definition in the same pass: the look-ahead that makes a line a
\* Term and the test that makes the next line a Definition never disagree.
C27_NoDanglingTerm ==
    \A n \in 1..Len(doc) :
        dtRow(n) => /\ n < Len(doc)
                    /\ processed(n + 1) => (ddRow(n + 1) /\ ~dtRow(n + 1))

\* a Term whose Definition has three leading blanks, which the look-ahead
\* only accepts after trimming
C27_Witness ==
    /\ apc = "done"
    /\ \E n \in 1..Len(doc) - 1 :
          /\ dtRow(n)
          /\ LeadingSpaces(doc[n + 1]) > 2
          /\ ddRow(n + 1)

\* C28: the marker directive of a Definition line stays inside the line:
\* line.from <= span start < span end <= line.to, for any indent length.
C28_MarkerInsideLine ==
    \A n \in 1..Len(doc) :
        ddRow(n) =>
            /\ markersOf(n) # {}
            /\ \A k \in markersOf(n) :
                  /\ lineFrom(doc, n) <= builder[k].from
                  /\ builder[k].from < builder[k].to
                  /\ builder[k].to <= lineTo(doc, n)

\* a Definition line that ends with the space after its marker: the span
\* ends exactly at the end of the line
C28_Witness ==
    /\ apc = "done"
    /\ \E n \in 1..Len(doc) :
          /\ ddRow(n)
          /\ Len(doc[n]) = 2
          /\ \E k \in markersOf(n) : builder[k].to = lineTo(doc, n)

----------------------------------------------------------------------------
(* Flags between iterations *)

\* C29: invalidateCurrentPair is false at the start of every iteration of the
\* restructurer, so its guards on the definition branch and on the term
\* branch never block a line.
C29_InvalidationNeverCarries ==
    /\ rpc = "loop" => ~invalidateCurrentPair
    /\ RInLoop =>
          /\ isPPDefinitionBranch <=> ppDefinitionMatch(line)
          /\ isPPTermBranch <=> (ppDefinitionMatch(ppNextLine) /\ ~ppIsNotTerm(line))

\* the line just read is a marker line with the back-reference markup and
\* another line is still to be read
C29_Witness ==
    /\ RInLoop
    /\ ri >= 1
    /\ ppDefinitionMatch(T(ri))
    /\ IncludesBackref(ppBody(T(ri)))
    /\ ~invalidateCurrentPair

\* the line just read got neither the term row nor a definition row
unclassified(n) == ~dtRow(n) /\ ~ddRow(n)

\* C30: lastLineWasTerm and lastLineWasDefinition are never both true, and
\* both are false after every blank line, fence line, line inside a fence
\* and line classified Other.
C30_RunFlags ==
    /\ ~(lastLineWasTerm /\ lastLineWasDefinition)
    /\ (apc = "loop" /\ i > 1) =>
          /\ unclassified(i - 1) => (~lastLineWasTerm /\ ~lastLineWasDefinition)
          /\ dtRow(i - 1) => (lastLineWasTerm /\ ~lastLineWasDefinition)
          /\ ddRow(i - 1) => (lastLineWasDefinition /\ ~lastLineWasTerm)

\* a run has just been closed by a line classified Other
C30_Witness ==
    /\ apc = "loop"
    /\ i > 2
    /\ ddRow(i - 2)
    /\ unclassified(i - 1)
    /\ Trim(doc[i - 1]) # <<>> /\ ~isFence(doc[i - 1])
    /\ ~lastLineWasTerm /\ ~lastLineWasDefinition

====
